---- MODULE Spec2Model ----
(***************************************************************************)
(* Model of builder.py, the script builder of fedora-things-to-do.          *)
(*                                                                         *)
(* Text.  A Python string is modelled as a sequence of tokens, each token  *)
(* an atomic piece of the string; the string is the concatenation of its   *)
(* tokens.  str.startswith(p) is "the first token is p", "p in s" is "some *)
(* token is p", s + t is s \o t.  "\n".join(lines) puts a "\n" token       *)
(* between the lines.                                                      *)
(*                                                                         *)
(* Dicts.  A Python dict whose iteration order the code depends on is a    *)
(* sequence of [k, v] pairs with distinct keys in insertion order; a dict  *)
(* that is only indexed is a TLA+ function (record) over its keys.         *)
(*                                                                         *)
(* Exceptions.  A function that can raise returns a record whose field     *)
(* "raised" tells whether a KeyError left the call.                        *)
(***************************************************************************)
EXTENDS Integers, Sequences, FiniteSets, TLC

VARIABLES
    distro_data,   \* the catalog session_config.get_distro_data() returns
    options,       \* the caller's selection object, shared by all calls
    options0,      \* the selection as the caller built it (history)
    output_mode,   \* the output mode label passed to every emitter
    lastOp,        \* the function called last ("none" before any call)
    lastOut,       \* what that call returned: [raised, out]
    again          \* the last call repeated the call before it (history)

vars == <<distro_data, options, options0, output_mode, lastOp, lastOut, again>>

(***************************************************************************)
(* Bounds of the model.                                                    *)
(***************************************************************************)
MaxOpts == 2     \* entries of the selection's system_config dict
MaxApps == 2     \* app entries of the selection's app categories

(***************************************************************************)
(* Python dict operations on ordered dicts (sequences of [k, v] pairs).    *)
(***************************************************************************)
DictKeys(d) == {d[i].k : i \in DOMAIN d}

DictHas(d, key) == key \in DictKeys(d)

DictGet(d, key) == d[CHOOSE i \in DOMAIN d : d[i].k = key].v

DictGetDefault(d, key, default) ==
    IF DictHas(d, key) THEN DictGet(d, key) ELSE default

\* d[key] = val: an existing key keeps its place, a new key goes last.
DictSet(d, key, val) ==
    IF DictHas(d, key)
    THEN [i \in DOMAIN d |-> IF d[i].k = key THEN [k |-> key, v |-> val] ELSE d[i]]
    ELSE Append(d, [k |-> key, v |-> val])

\* list(d.keys())
KeyList(d) == [i \in DOMAIN d |-> d[i].k]

(***************************************************************************)
(* Text.                                                                   *)
(***************************************************************************)
NL == "\n"

StartsWith(s, pattern) == Len(s) >= 1 /\ s[1] = pattern

Contains(s, pattern) == \E i \in DOMAIN s : s[i] = pattern

RECURSIVE Join(_)
\* "\n".join(lines)
Join(lines) ==
    IF lines = <<>> THEN <<>>
    ELSE IF Len(lines) = 1 THEN lines[1]
    ELSE lines[1] \o <<NL>> \o Join(Tail(lines))

PLACEHOLDERS == [hostname |-> "{hostname}"]

all_std_categories ==
    <<"essential_apps", "internet_apps", "productivity_apps", "multimedia_apps",
      "gaming_apps", "management_apps", "customization">>

additional_categories ==
    <<"internet_apps", "productivity_apps", "multimedia_apps",
      "gaming_apps", "management_apps", "customization">>

\* quiet_redirect = " > /dev/null 2>&1" if output_mode == "Quiet" else ""
quiet_redirect(mode) == IF mode = "Quiet" THEN <<" > /dev/null 2>&1">> ELSE <<>>

no_redirect_patterns == <<"log_message", "echo", "printf", "read", "prompt_", "EOF">>

\* Faulty variant: a pattern anywhere in the command blocks the redirection.
should_quiet_redirect_anywhere(cmd) ==
    ~ \E p \in DOMAIN no_redirect_patterns :
          Contains(cmd, no_redirect_patterns[p]) \/ Contains(cmd, "EOF")

should_quiet_redirect(cmd) ==
    ~ \E p \in DOMAIN no_redirect_patterns :
          StartsWith(cmd, no_redirect_patterns[p]) \/ Contains(cmd, "EOF")

(***************************************************************************)
(* Results of calls.                                                       *)
(***************************************************************************)
Returned(text) == [raised |-> FALSE, out |-> text]

Raised == [raised |-> TRUE, out |-> <<>>]

(***************************************************************************)
(* build_system_upgrade                                                    *)
(***************************************************************************)
build_system_upgrade(opts, mode) ==
    Returned(Join(<< <<"log_message", " \"Performing system upgrade... This may take a while...\"">>,
                     <<"dnf upgrade -y">> \o quiet_redirect(mode),
                     <<>> >>))

(***************************************************************************)
(* check_dependencies: the selection object after the call (the function   *)
(* assigns into the dict it was given and returns that same dict).         *)
(***************************************************************************)
\* Faulty variant: the resolver flips enable_rpmfusion instead of setting it.
check_dependencies_toggle(opts) ==
    IF \/ DictGetDefault(opts["system_config"], "install_multimedia_codecs", FALSE)
       \/ DictGetDefault(opts["system_config"], "install_intel_codecs", FALSE)
       \/ DictGetDefault(opts["system_config"], "install_amd_codecs", FALSE)
    THEN [opts EXCEPT !["system_config"] =
             DictSet(@, "enable_rpmfusion", ~ DictGetDefault(@, "enable_rpmfusion", FALSE))]
    ELSE opts

\* Faulty variant: install_amd_codecs is forgotten among the triggers.
check_dependencies_two_triggers(opts) ==
    IF \/ DictGetDefault(opts["system_config"], "install_multimedia_codecs", FALSE)
       \/ DictGetDefault(opts["system_config"], "install_intel_codecs", FALSE)
    THEN [opts EXCEPT !["system_config"] = DictSet(@, "enable_rpmfusion", TRUE)]
    ELSE opts

check_dependencies(opts) ==
    IF \/ DictGetDefault(opts["system_config"], "install_multimedia_codecs", FALSE)
       \/ DictGetDefault(opts["system_config"], "install_intel_codecs", FALSE)
       \/ DictGetDefault(opts["system_config"], "install_amd_codecs", FALSE)
    THEN [opts EXCEPT !["system_config"] = DictSet(@, "enable_rpmfusion", TRUE)]
    ELSE opts

(***************************************************************************)
(* build_system_config                                                     *)
(***************************************************************************)
\* One command of an option, as lines 139-143 and 146-150 emit it.
ConfigCommandLine(option, cmd, mode) ==
    LET c1 == IF option = "set_hostname" /\ Contains(cmd, "hostnamectl set-hostname")
              THEN cmd \o <<" ", PLACEHOLDERS["hostname"]>>
              ELSE cmd
    IN  IF mode = "Quiet" /\ should_quiet_redirect(c1)
        THEN c1 \o quiet_redirect(mode)
        ELSE c1

\* The lines one enabled option adds to config_commands.
ConfigBlock(option, entry, mode) ==
    << <<"# ", entry.description>> >>
    \o (IF entry.command.kind = "list"
        THEN [i \in DOMAIN entry.command.val |->
                 ConfigCommandLine(option, entry.command.val[i], mode)]
        ELSE <<ConfigCommandLine(option, entry.command.val, mode)>>)
    \o << <<>> >>

RECURSIVE ConfigLinesFrom(_, _, _, _)
ConfigLinesFrom(keys, selected, system_config, mode) ==
    IF keys = <<>> THEN <<>>
    ELSE LET option == Head(keys)
         IN  (IF DictGetDefault(selected, option, FALSE) /\ DictHas(system_config, option)
              THEN ConfigBlock(option, DictGet(system_config, option), mode)
              ELSE <<>>)
             \o ConfigLinesFrom(Tail(keys), selected, system_config, mode)

\* config_commands after the loop over options["system_config"].items()
ConfigLines(selected, system_config, mode) ==
    ConfigLinesFrom(KeyList(selected), selected, system_config, mode)

\* The selection object after build_system_config(opts, mode).
build_system_config_options(opts) ==
    IF "system_config" \in DOMAIN opts THEN check_dependencies(opts) ELSE opts

\* Faulty variant: the loop walks the selection as it was before the resolver ran.
build_system_config_unresolved(opts, mode) ==
    IF "system_config" \notin DOMAIN opts THEN Raised
    ELSE IF "system_config" \notin DOMAIN distro_data THEN Raised
    ELSE Returned(Join(ConfigLines(opts["system_config"],
                                   distro_data["system_config"], mode)))

build_system_config(opts, mode) ==
    IF "system_config" \notin DOMAIN opts THEN Raised
    ELSE IF "system_config" \notin DOMAIN distro_data THEN Raised
    ELSE Returned(Join(ConfigLines(check_dependencies(opts)["system_config"],
                                   distro_data["system_config"], mode)))

(***************************************************************************)
(* build_app_install                                                       *)
(***************************************************************************)
Ok(lines) == [raised |-> FALSE, lines |-> lines]

KeyError == [raised |-> TRUE, lines |-> <<>>]

\* app_data.get('selected', False)
IsSelected(entry) == IF "selected" \in DOMAIN entry THEN entry.selected ELSE FALSE

RECURSIVE SelectedIds(_)
\* category_apps: the selected app ids of one subcategory, in selection order
SelectedIds(category_data) ==
    IF category_data = <<>> THEN <<>>
    ELSE (IF IsSelected(Head(category_data).v) THEN <<Head(category_data).k>> ELSE <<>>)
         \o SelectedIds(Tail(category_data))

\* The choice of the command(s) of one selected app (lines 172-179).
AppCommands(app_data, entry) ==
    IF "installation_types" \in DOMAIN app_data
    THEN IF "installation_type" \notin DOMAIN entry
         THEN [raised |-> TRUE, commands |-> <<>>]
         ELSE LET install_type == entry.installation_type
              IN  IF install_type # "" /\ install_type \in DOMAIN app_data.installation_types
                  THEN [raised |-> FALSE,
                        commands |-> app_data.installation_types[install_type].command]
                  ELSE IF "command" \in DOMAIN app_data
                       THEN [raised |-> FALSE, commands |-> app_data.command]
                       ELSE [raised |-> TRUE, commands |-> <<>>]
    ELSE IF "command" \in DOMAIN app_data
         THEN [raised |-> FALSE, commands |-> app_data.command]
         ELSE [raised |-> TRUE, commands |-> <<>>]

\* f"{cmd}{quiet_redirect if should_quiet_redirect(cmd) else ''}"
InstallCommandLine(cmd, mode) ==
    cmd \o (IF should_quiet_redirect(cmd) THEN quiet_redirect(mode) ELSE <<>>)

\* The lines one selected app adds (lines 169-188), given its commands.
AppBlock(app_data, commands, mode) ==
    << <<"log_message", " \"Installing ", app_data.name, "...\"">> >>
    \o (IF commands.kind = "list"
        THEN [i \in DOMAIN commands.val |-> InstallCommandLine(commands.val[i], mode)]
        ELSE <<InstallCommandLine(commands.val, mode)>>)
    \o << <<"log_message", " \"", app_data.name, " installed successfully.\"">> >>

RECURSIVE AppsLines(_, _, _, _)
\* The loop over category_apps (lines 167-188).
AppsLines(ids, category_data, catalog_apps, mode) ==
    IF ids = <<>> THEN Ok(<<>>)
    ELSE LET app_id == Head(ids)
         IN  IF ~ DictHas(catalog_apps, app_id) THEN KeyError
             ELSE LET app_data == DictGet(catalog_apps, app_id)
                      chosen   == AppCommands(app_data, DictGet(category_data, app_id))
                  IN  IF chosen.raised THEN KeyError
                      ELSE LET rest == AppsLines(Tail(ids), category_data, catalog_apps, mode)
                           IN  IF rest.raised THEN KeyError
                               ELSE Ok(AppBlock(app_data, chosen.commands, mode) \o rest.lines)

\* One subcategory of the selection (lines 163-191).
SubcategoryLines(category, category_name, category_data, mode) ==
    LET category_apps == SelectedIds(category_data)
    IN  IF category_apps = <<>> THEN Ok(<<>>)
        ELSE IF category \notin DOMAIN distro_data THEN KeyError
        ELSE IF ~ DictHas(distro_data[category], category_name) THEN KeyError
        ELSE LET sub  == DictGet(distro_data[category], category_name)
                 apps == AppsLines(category_apps, category_data, sub.apps, mode)
             IN  IF apps.raised THEN KeyError
                 ELSE Ok(<< <<"# Install ", sub.name, " applications">> >>
                         \o apps.lines \o << <<>> >>)

RECURSIVE add_app_install_commands_from(_, _, _)
add_app_install_commands_from(category, subcats, mode) ==
    IF subcats = <<>> THEN Ok(<<>>)
    ELSE LET first == SubcategoryLines(category, Head(subcats).k, Head(subcats).v, mode)
         IN  IF first.raised THEN KeyError
             ELSE LET rest == add_app_install_commands_from(category, Tail(subcats), mode)
                  IN  IF rest.raised THEN KeyError ELSE Ok(first.lines \o rest.lines)

\* add_app_install_commands(category): the lines it appends, or the KeyError
add_app_install_commands(opts, category, mode) ==
    add_app_install_commands_from(
        category, IF category \in DOMAIN opts THEN opts[category] ELSE <<>>, mode)

RECURSIVE AdditionalLines(_, _, _)
\* for category in additional_categories: add_app_install_commands(category)
AdditionalLines(opts, categories, mode) ==
    IF categories = <<>> THEN Ok(<<>>)
    ELSE LET first == add_app_install_commands(opts, Head(categories), mode)
         IN  IF first.raised THEN KeyError
             ELSE LET rest == AdditionalLines(opts, Tail(categories), mode)
                  IN  IF rest.raised THEN KeyError ELSE Ok(first.lines \o rest.lines)

\* options["essential_apps"].get(name, False)
EssentialFlag(selected, name) == IF name \in DOMAIN selected THEN selected[name] ELSE FALSE

RECURSIVE EssentialSelected(_, _)
\* essential_apps: the catalog's apps flagged in the selection, in catalog order
EssentialSelected(apps, selected) ==
    IF apps = <<>> THEN <<>>
    ELSE (IF EssentialFlag(selected, Head(apps).name) THEN <<Head(apps)>> ELSE <<>>)
         \o EssentialSelected(Tail(apps), selected)

RECURSIVE JoinComma(_)
\* Faulty variant: the names are joined with ", " instead of " ".
JoinComma(names) ==
    IF names = <<>> THEN <<>>
    ELSE IF Len(names) = 1 THEN <<names[1]>>
    ELSE <<names[1], ", ">> \o JoinComma(Tail(names))

RECURSIVE JoinSpace(_)
\* " ".join(names)
JoinSpace(names) ==
    IF names = <<>> THEN <<>>
    ELSE IF Len(names) = 1 THEN <<names[1]>>
    ELSE <<names[1], " ">> \o JoinSpace(Tail(names))

\* The essential-apps block (lines 195-201).
EssentialLines(essential_apps, mode) ==
    IF essential_apps = <<>> THEN <<>>
    ELSE << <<"# Install essential applications">>,
            <<"log_message", " \"Installing essential applications...\"">>,
            <<"dnf install -y ">>
                \o JoinSpace([i \in DOMAIN essential_apps |-> essential_apps[i].name])
                \o quiet_redirect(mode),
            <<"log_message", " \"Essential applications installed successfully.\"">>,
            <<>> >>

build_app_install(opts, mode) ==
    IF "essential_apps" \notin DOMAIN distro_data \/ "essential_apps" \notin DOMAIN opts
    THEN Raised
    ELSE LET essential_apps ==
                 EssentialSelected(distro_data["essential_apps"].apps, opts["essential_apps"])
             more == AdditionalLines(opts, additional_categories, mode)
         IN  IF more.raised THEN Raised
             ELSE Returned(Join(EssentialLines(essential_apps, mode) \o more.lines))

(***************************************************************************)
(* build_custom_script                                                     *)
(***************************************************************************)
Whitespace == {" ", "\t", NL}

RECURSIVE LStrip(_)
LStrip(s) == IF s # <<>> /\ Head(s) \in Whitespace THEN LStrip(Tail(s)) ELSE s

RECURSIVE RStrip(_)
RStrip(s) ==
    IF s # <<>> /\ s[Len(s)] \in Whitespace THEN RStrip(SubSeq(s, 1, Len(s) - 1)) ELSE s

\* str.strip()
Strip(s) == RStrip(LStrip(s))

build_custom_script(opts, mode) ==
    LET custom_script ==
            Strip(IF "custom_script" \in DOMAIN opts THEN opts["custom_script"] ELSE <<>>)
    IN  IF custom_script # <<>> THEN Returned(custom_script \o <<NL>>) ELSE Returned(<<>>)

(***************************************************************************)
(* generate_options                                                        *)
(***************************************************************************)
RECURSIVE WithoutDescription(_)
\* [key for key in keys if key != "description"]
WithoutDescription(keys) ==
    IF keys = <<>> THEN <<>>
    ELSE (IF Head(keys) # "description" THEN <<Head(keys)>> ELSE <<>>)
         \o WithoutDescription(Tail(keys))

\* The entry of one additional category (lines 75-79).
CategoryOptions(category) ==
    LET category_data == IF category \in DOMAIN distro_data THEN distro_data[category] ELSE <<>>
    IN  [name |-> DictGetDefault(category_data, "name", ""),
         apps |-> KeyList(DictGetDefault(category_data, "apps", <<>>))]

generate_options ==
    IF DOMAIN distro_data = {} THEN Returned(<<>>)
    ELSE IF "system_config" \notin DOMAIN distro_data THEN Raised
    ELSE IF "essential_apps" \notin DOMAIN distro_data THEN Raised
    ELSE Returned(
        [c \in {all_std_categories[i] : i \in DOMAIN all_std_categories} \cup {"system_config"} |->
            IF c = "system_config"
            THEN WithoutDescription(KeyList(distro_data["system_config"]))
            ELSE IF c = "essential_apps"
            THEN [i \in DOMAIN distro_data["essential_apps"].apps |->
                     distro_data["essential_apps"].apps[i].name]
            ELSE CategoryOptions(c)])

(***************************************************************************)
(* Catalogs.                                                               *)
(***************************************************************************)
Pair(key, val) == [k |-> key, v |-> val]

Str(cmd) == [kind |-> "str", val |-> cmd]

List(cmds) == [kind |-> "list", val |-> cmds]

CmdDnf      == <<"dnf install -y foo">>
CmdLog      == <<"log_message", " \"x\"">>
CmdHeredoc  == <<"cat << ", "EOF", " > /etc/foo.conf">>
CmdEcho     == <<"echo", " hi">>
CmdSudoEcho == <<"sudo ", "echo", " hi">>
CmdPrintf   == <<"printf", " '%s' x">>
CmdRead     == <<"read", " -p ok">>
CmdPrompt   == <<"prompt_", "reboot">>
CmdHost     == <<"sudo ", "hostnamectl set-hostname">>
CmdFlatpak  == <<"flatpak install -y app">>
CmdRpm      == <<"dnf install -y app.rpm">>

SystemConfigA ==
    << Pair("description", "System configuration"),
       Pair("enable_rpmfusion",
            [name |-> "RPM Fusion", description |-> "Enable RPM Fusion",
             command |-> List(<<CmdDnf, CmdLog, CmdHeredoc>>)]),
       Pair("install_multimedia_codecs",
            [name |-> "Codecs", description |-> "Install multimedia codecs",
             command |-> Str(CmdSudoEcho)]),
       Pair("install_intel_codecs",
            [name |-> "Intel", description |-> "Install Intel codecs",
             command |-> List(<<CmdEcho, CmdDnf>>)]),
       Pair("install_amd_codecs",
            [name |-> "AMD", description |-> "Install AMD codecs",
             command |-> Str(CmdPrintf)]),
       Pair("set_hostname",
            [name |-> "Hostname", description |-> "Set the hostname",
             command |-> List(<<CmdHost, CmdRead>>)]) >>

SystemConfigB ==
    << Pair("set_hostname",
            [name |-> "Hostname", description |-> "Set the hostname",
             command |-> Str(CmdHost)]),
       Pair("install_intel_codecs",
            [name |-> "Intel", description |-> "Install Intel codecs",
             command |-> List(<<CmdPrompt, CmdDnf>>)]),
       Pair("enable_rpmfusion",
            [name |-> "RPM Fusion", description |-> "Enable RPM Fusion",
             command |-> Str(CmdDnf)]) >>

Firefox ==
    [name |-> "Firefox", description |-> "Web browser", command |-> Str(CmdDnf),
     installation_types |->
         [flatpak |-> [command |-> List(<<CmdFlatpak, CmdLog>>)],
          rpm     |-> [command |-> Str(CmdRpm)]]]

Chrome ==
    [name |-> "Chrome", description |-> "Another browser",
     command |-> List(<<CmdEcho, CmdRpm, CmdHeredoc>>)]

Steam ==
    [name |-> "Steam", description |-> "Game launcher",
     installation_types |-> [flatpak |-> [command |-> Str(CmdFlatpak)]]]

CatalogA ==
    [system_config  |-> SystemConfigA,
     essential_apps |-> [name |-> "Essential Applications",
                         apps |-> << [name |-> "git", command |-> "n/a"],
                                     [name |-> "vim", command |-> "n/a"],
                                     [name |-> "curl", command |-> "n/a"] >>],
     internet_apps  |-> << Pair("browsers",
                                [name |-> "Browsers",
                                 apps |-> <<Pair("firefox", Firefox), Pair("chrome", Chrome)>>]) >>,
     gaming_apps    |-> << Pair("launchers",
                                [name |-> "Launchers", apps |-> <<Pair("steam", Steam)>>]) >>,
     customization  |-> << Pair("name", "Customization"),
                           Pair("apps", <<Pair("themes", [name |-> "Themes"])>>) >>]

CatalogB ==
    [system_config  |-> SystemConfigB,
     essential_apps |-> [name |-> "Essential Applications",
                         apps |-> << [name |-> "vim", command |-> "n/a"],
                                     [name |-> "git", command |-> "n/a"] >>],
     internet_apps  |-> << Pair("browsers",
                                [name |-> "Browsers", apps |-> <<Pair("chrome", Chrome)>>]) >>]

\* The catalog the loader hands over: one of the two, some categories missing.
Catalog(which, categories) ==
    LET full == IF which = "A" THEN CatalogA ELSE CatalogB
    IN  [c \in categories \cap DOMAIN full |-> full[c]]

AllCategories == DOMAIN CatalogA

(***************************************************************************)
(* Selections.                                                             *)
(***************************************************************************)
OptionKeys ==
    {"enable_rpmfusion", "install_multimedia_codecs", "install_intel_codecs",
     "install_amd_codecs", "set_hostname", "legacy_option"}

Distinct(s) == \A i, j \in DOMAIN s : i # j => s[i][1] # s[j][1]

\* The system_config dicts of at most n entries.
SelConfigs(n) ==
    UNION {{[i \in 1..m |-> Pair(s[i][1], s[i][2])] :
                s \in {t \in [1..m -> OptionKeys \X BOOLEAN] : Distinct(t)}} : m \in 0..n}

\* What a caller can put into an app category: <<category, subcategory,
\* app-id>> and the entry stored there.  "ghost", "old_group" and (in catalog
\* B) "firefox" and "gaming_apps" are entries the catalog no longer has.
AppChoices ==
    {<<"internet_apps", "browsers", "firefox">>}
        \X { [selected |-> TRUE],
             [selected |-> TRUE, installation_type |-> ""],
             [selected |-> TRUE, installation_type |-> "flatpak"],
             [selected |-> TRUE, installation_type |-> "snap"],
             [selected |-> FALSE, installation_type |-> "rpm"] }
    \cup {<<"internet_apps", "browsers", "chrome">>}
        \X { [selected |-> TRUE], [installation_type |-> "rpm"] }
    \cup {<<"internet_apps", "browsers", "ghost">>}
        \X { [selected |-> TRUE, installation_type |-> "flatpak"] }
    \cup {<<"internet_apps", "old_group", "chrome">>}
        \X { [selected |-> TRUE] }
    \cup {<<"gaming_apps", "launchers", "steam">>}
        \X { [selected |-> TRUE, installation_type |-> "flatpak"],
             [selected |-> TRUE, installation_type |-> "rpm"] }

\* The selection's app categories after  sel[cat][sub][app] = entry.
PutApp(sel, cat, sub, app, entry) ==
    LET subs  == IF cat \in DOMAIN sel THEN sel[cat] ELSE <<>>
        apps  == DictGetDefault(subs, sub, <<>>)
        subs1 == DictSet(subs, sub, DictSet(apps, app, entry))
    IN  [c \in DOMAIN sel \cup {cat} |-> IF c = cat THEN subs1 ELSE sel[c]]

RECURSIVE PutApps(_, _)
PutApps(sel, list) ==
    IF list = <<>> THEN sel
    ELSE PutApps(PutApp(sel, list[1][1][1], list[1][1][2], list[1][1][3], list[1][2]),
                 Tail(list))

\* The app selections of at most n entries, in every insertion order.
AppLists(n) ==
    UNION {{t \in [1..m -> AppChoices] : Distinct(t)} : m \in 0..n}

EssentialNames == {"git", "vim", "curl", "emacs"}

SelEssentials == UNION {[names -> BOOLEAN] : names \in SUBSET EssentialNames}

CustomScripts ==
    { <<>>, <<" ">>, <<"echo", " done">>, <<" ", NL, "ls -l", " ", NL>>, <<"a", " ", "b">> }

Modes == {"Quiet", "Normal", "Verbose"}

MkOptions(sc, ess, apps) ==
    ("system_config" :> sc) @@ ("essential_apps" :> ess) @@ PutApps(<<>>, apps)

BaseConfig == <<Pair("set_hostname", TRUE), Pair("install_intel_codecs", TRUE)>>

BaseEssential == [n \in {"git", "vim"} |-> n = "git"]

(***************************************************************************)
(* The state machine: a caller builds a selection, then calls the          *)
(* functions of the module on it, in any order, any number of times.       *)
(***************************************************************************)
Start(catalog, opts, mode) ==
    /\ distro_data = catalog
    /\ options = opts
    /\ options0 = opts
    /\ output_mode = mode
    /\ lastOp = "none"
    /\ lastOut = Returned(<<>>)
    /\ again = FALSE

\* The system_config selection varies.
InitConfig ==
    \E which \in {"A", "B"}, sc \in SelConfigs(MaxOpts), mode \in Modes :
        Start(Catalog(which, AllCategories), MkOptions(sc, BaseEssential, <<>>), mode)

\* The app selection varies.
InitApps ==
    \E which \in {"A", "B"}, apps \in AppLists(MaxApps), mode \in Modes :
        Start(Catalog(which, AllCategories), MkOptions(BaseConfig, BaseEssential, apps), mode)

\* The essential-apps selection varies.
InitEssential ==
    \E which \in {"A", "B"}, ess \in SelEssentials, mode \in Modes :
        Start(Catalog(which, AllCategories), MkOptions(BaseConfig, ess, <<>>), mode)

\* The catalog is incomplete or empty.
InitCatalog ==
    \E which \in {"A", "B"}, cats \in SUBSET AllCategories, apps \in AppLists(1) :
        Start(Catalog(which, cats), MkOptions(BaseConfig, BaseEssential, apps), "Quiet")

\* The custom script varies; the selection may lack whole sections.
InitCustom ==
    \E script \in CustomScripts, keys \in SUBSET {"system_config", "essential_apps", "custom_script"},
       mode \in Modes :
        Start(CatalogA,
              [key \in keys |->
                  (MkOptions(BaseConfig, BaseEssential, <<>>) @@ ("custom_script" :> script))[key]],
              mode)

Init == InitConfig \/ InitApps \/ InitEssential \/ InitCatalog \/ InitCustom

Called(op, result, opts) ==
    /\ lastOp' = op
    /\ lastOut' = result
    /\ options' = opts
    /\ again' = (lastOp = op)
    /\ UNCHANGED <<distro_data, options0, output_mode>>

BuildSystemUpgrade ==
    Called("build_system_upgrade", build_system_upgrade(options, output_mode), options)

BuildSystemConfig ==
    Called("build_system_config", build_system_config(options, output_mode),
           build_system_config_options(options))

BuildAppInstall ==
    Called("build_app_install", build_app_install(options, output_mode), options)

BuildCustomScript ==
    Called("build_custom_script", build_custom_script(options, output_mode), options)

GenerateOptions ==
    Called("generate_options", generate_options, options)

Next ==
    \/ BuildSystemUpgrade
    \/ BuildSystemConfig
    \/ BuildAppInstall
    \/ BuildCustomScript
    \/ GenerateOptions

Spec == Init /\ [][Next]_vars

\* The calls on the selections whose app categories vary.
SpecApps == InitApps /\ [][Next]_vars

(***************************************************************************)
(* Reading an emitted text back: its lines, and where a line stands.       *)
(***************************************************************************)
RECURSIVE Split(_)
Split(text) ==
    IF ~ Contains(text, NL) THEN <<text>>
    ELSE LET i == CHOOSE n \in DOMAIN text :
                      text[n] = NL /\ \A m \in 1..(n - 1) : text[m] # NL
         IN  <<SubSeq(text, 1, i - 1)>> \o Split(SubSeq(text, i + 1, Len(text)))

\* The first position of a line in a list of lines, 0 when it is not there.
FirstIndex(lines, line) ==
    IF \E i \in DOMAIN lines : lines[i] = line
    THEN CHOOSE i \in DOMAIN lines :
             lines[i] = line /\ \A j \in 1..(i - 1) : lines[j] # line
    ELSE 0

Pos(d, key) == CHOOSE i \in DOMAIN d : d[i].k = key

RECURSIVE DictDel(_, _)
DictDel(d, key) ==
    IF d = <<>> THEN <<>>
    ELSE (IF Head(d).k = key THEN <<>> ELSE <<Head(d)>>) \o DictDel(Tail(d), key)

Suffix == " > /dev/null 2>&1"

EndsWithSuffix(line) == line # <<>> /\ line[Len(line)] = Suffix

CmdList(command) == IF command.kind = "list" THEN command.val ELSE <<command.val>>

Emitters ==
    {"build_system_upgrade", "build_system_config", "build_app_install", "build_custom_script"}

TriggerKeys == {"install_multimedia_codecs", "install_intel_codecs", "install_amd_codecs"}

Triggered(sc) == \E i \in DOMAIN sc : sc[i].k \in TriggerKeys /\ sc[i].v = TRUE

\* The option keys enabled in a system_config selection and present in the catalog.
EnabledInCatalog(sc, cat) ==
    {key \in DictKeys(sc) \cap DictKeys(cat) : DictGet(sc, key) = TRUE}

CommentLine(cat, key) == <<"# ", DictGet(cat, key).description>>

ConfigReturned == lastOp = "build_system_config" /\ ~ lastOut.raised

InstallReturned == lastOp = "build_app_install" /\ ~ lastOut.raised

\* The selected app entries <<category, subcategory, app-id>> of a selection.
SelectedApps(opts) ==
    {e \in UNION {UNION {{<<c, opts[c][i].k, opts[c][i].v[j].k>> : j \in DOMAIN opts[c][i].v}
                            : i \in DOMAIN opts[c]}
                     : c \in DOMAIN opts \ {"system_config", "essential_apps", "custom_script"}} :
        IsSelected(DictGet(DictGet(opts[e[1]], e[2]), e[3]))}

InCatalog(e) ==
    /\ e[1] \in DOMAIN distro_data
    /\ DictHas(distro_data[e[1]], e[2])
    /\ DictHas(DictGet(distro_data[e[1]], e[2]).apps, e[3])

CatalogApp(e) == DictGet(DictGet(distro_data[e[1]], e[2]).apps, e[3])

SelEntry(opts, e) == DictGet(DictGet(opts[e[1]], e[2]), e[3])

StaleApps(opts) == {e \in SelectedApps(opts) : ~ InCatalog(e)}

RemoveApp(opts, e) ==
    [opts EXCEPT ![e[1]] = DictSet(@, e[2], DictDel(DictGet(@, e[2]), e[3]))]

StaleOptions(opts) ==
    {key \in DictKeys(opts["system_config"]) :
        /\ DictGet(opts["system_config"], key) = TRUE
        /\ ~ DictHas(distro_data["system_config"], key)}

RemoveOption(opts, key) == [opts EXCEPT !["system_config"] = DictDel(@, key)]

InstallingLine(app_data) == <<"log_message", " \"Installing ", app_data.name, "...\"">>

InstalledLine(app_data) == <<"log_message", " \"", app_data.name, " installed successfully.\"">>

(***************************************************************************)
(* C1.  Dependency Resolver: if one of install_multimedia_codecs,          *)
(* install_intel_codecs, install_amd_codecs is true in the selection's     *)
(* system_config, the returned selection has enable_rpmfusion true,        *)
(* whatever it was before (true, false or absent); if none is true, the    *)
(* returned selection equals the given one on every key.  Checked for the  *)
(* selection the caller built and for every selection a call leaves.       *)
(***************************************************************************)
ResolvedAsClaimed(S) ==
    LET R == check_dependencies(S)
    IN  IF Triggered(S["system_config"])
        THEN /\ DictHas(R["system_config"], "enable_rpmfusion")
             /\ DictGet(R["system_config"], "enable_rpmfusion") = TRUE
        ELSE R = S

C1_Resolver ==
    /\ "system_config" \in DOMAIN options0 => ResolvedAsClaimed(options0)
    /\ "system_config" \in DOMAIN options => ResolvedAsClaimed(options)
    /\ (lastOp = "build_system_config" /\ "system_config" \in DOMAIN options0
            /\ Triggered(options0["system_config"]))
        => DictGetDefault(options["system_config"], "enable_rpmfusion", FALSE) = TRUE

\* C1 witness: the resolver ran on a selection with a trigger and changed
\* enable_rpmfusion from false to true.
C1_Witness ==
    /\ "system_config" \in DOMAIN options0
    /\ lastOp = "build_system_config"
    /\ Triggered(options0["system_config"])
    /\ DictHas(options0["system_config"], "enable_rpmfusion")
    /\ DictGet(options0["system_config"], "enable_rpmfusion") = FALSE
    /\ DictGet(options["system_config"], "enable_rpmfusion") = TRUE

(***************************************************************************)
(* C2 as stated.  System-Config Emitter: if options A and B are both       *)
(* enabled in the resolved selection and present in the catalog, and A     *)
(* precedes B in the catalog's system_config key order, then A's           *)
(* description comment and commands precede B's in the output.             *)
(***************************************************************************)
BlocksOrderedBy(order) ==
    LET sc    == options["system_config"]
        cat   == distro_data["system_config"]
        lines == Split(lastOut.out)
    IN  \A a, b \in EnabledInCatalog(sc, cat) :
            Pos(order, a) < Pos(order, b)
            => /\ FirstIndex(lines, CommentLine(cat, a)) > 0
               /\ FirstIndex(lines, CommentLine(cat, a))
                      + Len(CmdList(DictGet(cat, a).command))
                  < FirstIndex(lines, CommentLine(cat, b))

C2_CatalogOrder == ConfigReturned => BlocksOrderedBy(distro_data["system_config"])

(***************************************************************************)
(* What build_system_config does instead of C2: the blocks follow the      *)
(* iteration order of the resolved selection, and enable_rpmfusion, when   *)
(* the resolver added it to a selection that did not have the key, is the  *)
(* last key of the selection, so its block comes after the blocks of the   *)
(* options that need it.                                                   *)
(***************************************************************************)
ObservedSelectionOrder ==
    ConfigReturned
    => /\ BlocksOrderedBy(options["system_config"])
       /\ (Triggered(options0["system_config"])
              /\ ~ DictHas(options0["system_config"], "enable_rpmfusion"))
          => KeyList(options["system_config"])
                 = KeyList(options0["system_config"]) \o <<"enable_rpmfusion">>

(***************************************************************************)
(* C3.  Stale selections are skipped, never an error: an entry that is     *)
(* enabled or selected but names an option key, subcategory or app-id the  *)
(* catalog does not have makes neither emitter raise, and the output       *)
(* equals the output for the same selection with that entry removed        *)
(* (stated for the calls that complete once the entry is removed).         *)
(***************************************************************************)
C3_StaleSkipped ==
    /\ (lastOp = "build_system_config" /\ "system_config" \in DOMAIN options0
            /\ "system_config" \in DOMAIN distro_data)
        => \A key \in StaleOptions(options0) :
               LET without == build_system_config(RemoveOption(options0, key), output_mode)
               IN  ~ without.raised => lastOut = without
    /\ lastOp = "build_app_install"
        => \A e \in StaleApps(options0) :
               LET without == build_app_install(RemoveApp(options0, e), output_mode)
               IN  ~ without.raised => lastOut = without

(***************************************************************************)
(* C4.  App-Install Emitter variant choice: for every selected app whose   *)
(* catalog entry declares installation_types (and a default command), the  *)
(* emitted commands are the variant's when the selection entry carries an  *)
(* installation_type that is a key of installation_types, and the app's    *)
(* top-level default command in every other case (installation_type        *)
(* absent, empty or not a key); the emitter does not raise in any of       *)
(* these cases.  Stated for selections without stale entries.              *)
(***************************************************************************)
ClaimedCommands(app_data, entry) ==
    IF /\ "installation_type" \in DOMAIN entry
       /\ entry.installation_type \in DOMAIN app_data.installation_types
    THEN app_data.installation_types[entry.installation_type].command
    ELSE app_data.command

VariantApps(opts) ==
    {e \in SelectedApps(opts) :
        /\ InCatalog(e)
        /\ "installation_types" \in DOMAIN CatalogApp(e)
        /\ "command" \in DOMAIN CatalogApp(e)}

\* The block of app e stands in the lines with exactly the commands cmds.
BlockHas(lines, app_data, cmds, mode) ==
    LET start == FirstIndex(lines, InstallingLine(app_data))
    IN  /\ start > 0
        /\ Len(lines) >= start + Len(cmds) + 1
        /\ \A j \in DOMAIN cmds : lines[start + j] = InstallCommandLine(cmds[j], mode)
        /\ lines[start + Len(cmds) + 1] = InstalledLine(app_data)

C4_VariantChoice ==
    (/\ lastOp = "build_app_install"
     /\ "essential_apps" \in DOMAIN options0 /\ "essential_apps" \in DOMAIN distro_data
     /\ StaleApps(options0) = {}
     /\ \A e \in SelectedApps(options0) : "command" \in DOMAIN CatalogApp(e))
    => \A e \in VariantApps(options0) :
           /\ ~ lastOut.raised
           /\ BlockHas(Split(lastOut.out), CatalogApp(e),
                       CmdList(ClaimedCommands(CatalogApp(e), SelEntry(options0, e))),
                       output_mode)

(***************************************************************************)
(* C5.  Redirection Policy applied per line: every catalog command line    *)
(* emitted by build_system_config or build_app_install ends with the       *)
(* appended suffix " > /dev/null 2>&1" if and only if the output mode is   *)
(* exactly "Quiet" and the command neither starts with one of log_message, *)
(* echo, printf, read, prompt_ nor contains "EOF"; under any other mode    *)
(* label no emitted line has the suffix.                                   *)
(***************************************************************************)
ClaimedRedirect(cmd, mode) ==
    /\ mode = "Quiet"
    /\ ~ (cmd # <<>> /\ cmd[1] \in {"log_message", "echo", "printf", "read", "prompt_"})
    /\ ~ \E i \in DOMAIN cmd : cmd[i] = "EOF"

\* line is the command cmd as emitted: the command first, the suffix last
\* exactly when the claim says so.
EmittedAsClaimed(line, cmd, mode) ==
    /\ Len(line) >= Len(cmd)
    /\ SubSeq(line, 1, Len(cmd)) = cmd
    /\ EndsWithSuffix(line) <=> ClaimedRedirect(cmd, mode)

C5_RedirectPerLine ==
    /\ ConfigReturned
        => LET cat   == distro_data["system_config"]
               lines == Split(lastOut.out)
           IN  /\ \A key \in EnabledInCatalog(options["system_config"], cat) :
                      LET start == FirstIndex(lines, CommentLine(cat, key))
                          cmds  == CmdList(DictGet(cat, key).command)
                      IN  /\ start > 0
                          /\ Len(lines) >= start + Len(cmds)
                          /\ \A j \in DOMAIN cmds :
                                 EmittedAsClaimed(lines[start + j], cmds[j], output_mode)
               /\ output_mode # "Quiet" => \A i \in DOMAIN lines : ~ EndsWithSuffix(lines[i])
    /\ InstallReturned
        => LET lines == Split(lastOut.out)
           IN  /\ \A e \in SelectedApps(options0) :
                      LET start == FirstIndex(lines, InstallingLine(CatalogApp(e)))
                          cmds  == CmdList(AppCommands(CatalogApp(e),
                                                       SelEntry(options0, e)).commands)
                      IN  /\ start > 0
                          /\ Len(lines) >= start + Len(cmds)
                          /\ \A j \in DOMAIN cmds :
                                 EmittedAsClaimed(lines[start + j], cmds[j], output_mode)
               /\ output_mode # "Quiet" => \A i \in DOMAIN lines : ~ EndsWithSuffix(lines[i])

\* C5 witness: in Quiet mode one option block was emitted in which one
\* command line carries the suffix and another does not.
C5_Witness ==
    /\ ConfigReturned
    /\ output_mode = "Quiet"
    /\ \E key \in EnabledInCatalog(options["system_config"], distro_data["system_config"]) :
          LET lines == Split(lastOut.out)
              start == FirstIndex(lines, CommentLine(distro_data["system_config"], key))
              cmds  == CmdList(DictGet(distro_data["system_config"], key).command)
          IN  /\ \E j \in DOMAIN cmds : EndsWithSuffix(lines[start + j])
              /\ \E j \in DOMAIN cmds : ~ EndsWithSuffix(lines[start + j])

(***************************************************************************)
(* C6.  Emitters do not mutate shared state: after any call to an emitter  *)
(* the caller's selection is equal, key for key, to what it was before the *)
(* call, so it still is the selection the caller built.                    *)
(***************************************************************************)
C6_NoMutation == lastOp \in Emitters => options = options0

(***************************************************************************)
(* C7.  System-Config Emitter idempotence: build_system_config called      *)
(* twice in a row on the same selection object, with the same catalog and  *)
(* Normal mode, returns the same text both times, also when the first      *)
(* call's dependency resolution changed or added enable_rpmfusion.         *)
(***************************************************************************)
C7_Idempotent ==
    [][(/\ lastOp = "build_system_config"
        /\ lastOp' = "build_system_config"
        /\ output_mode = "Normal")
       => lastOut' = lastOut]_vars

\* C7 witness: the second of two calls in a row returned text, and the first
\* had added enable_rpmfusion to the caller's selection.
C7_Witness ==
    /\ "system_config" \in DOMAIN options0
    /\ lastOp = "build_system_config"
    /\ again
    /\ output_mode = "Normal"
    /\ ~ lastOut.raised /\ lastOut.out # <<>>
    /\ ~ DictHas(options0["system_config"], "enable_rpmfusion")
    /\ DictHas(options["system_config"], "enable_rpmfusion")

(***************************************************************************)
(* C8.  Emitter order independence: whatever was called before, on the     *)
(* same selection object, each of the four emitters returns what it        *)
(* returns when it is the first to be called on the selection the caller   *)
(* built.                                                                  *)
(***************************************************************************)
C8_OrderIndependent ==
    /\ lastOp = "build_system_upgrade"
        => lastOut = build_system_upgrade(options0, output_mode)
    /\ lastOp = "build_system_config"
        => lastOut = build_system_config(options0, output_mode)
    /\ lastOp = "build_app_install"
        => lastOut = build_app_install(options0, output_mode)
    /\ lastOp = "build_custom_script"
        => lastOut = build_custom_script(options0, output_mode)

\* C8 witness: build_system_config returned text again after an earlier call
\* of it had changed the selection object.
C8_Witness ==
    /\ lastOp = "build_system_config"
    /\ again
    /\ options # options0
    /\ ~ lastOut.raised /\ lastOut.out # <<>>

(***************************************************************************)
(* C9.  Essential-apps block of build_app_install: if a catalog essential  *)
(* app is flagged true in the selection, the output begins with five       *)
(* lines: the comment, the "Installing essential applications..." status   *)
(* line, the one command "dnf install -y " followed by the names of the    *)
(* selected catalog apps in catalog order separated by single spaces       *)
(* (flagged names the catalog lacks left out), the "installed              *)
(* successfully" status line, a blank line; the command carries the        *)
(* redirection suffix iff the mode is Quiet, the status lines never do.    *)
(* If no catalog essential app is selected none of these lines is emitted. *)
(***************************************************************************)
FlaggedCatalogNames(apps, flags) ==
    SelectSeq([i \in DOMAIN apps |-> apps[i].name],
              LAMBDA n : n \in DOMAIN flags /\ flags[n] = TRUE)

SpaceSeparated(names) ==
    [i \in 1..(2 * Len(names) - 1) |-> IF i % 2 = 1 THEN names[(i + 1) \div 2] ELSE " "]

EssentialComment == <<"# Install essential applications">>

EssentialStart == <<"log_message", " \"Installing essential applications...\"">>

EssentialDone == <<"log_message", " \"Essential applications installed successfully.\"">>

C9_EssentialBlock ==
    InstallReturned
    => LET names == FlaggedCatalogNames(distro_data["essential_apps"].apps,
                                        options0["essential_apps"])
           lines == Split(lastOut.out)
       IN  IF names # <<>>
           THEN /\ Len(lines) >= 5
                /\ lines[1] = EssentialComment
                /\ lines[2] = EssentialStart
                /\ lines[3] = <<"dnf install -y ">> \o SpaceSeparated(names)
                                 \o (IF output_mode = "Quiet" THEN <<Suffix>> ELSE <<>>)
                /\ lines[4] = EssentialDone
                /\ lines[5] = <<>>
           ELSE \A i \in DOMAIN lines :
                    /\ lines[i] \notin {EssentialComment, EssentialStart, EssentialDone}
                    /\ ~ StartsWith(lines[i], "dnf install -y ")

\* C9 witness: in Quiet mode two catalog apps were installed by the one
\* command while a flagged name the catalog lacks was left out.
C9_Witness ==
    /\ InstallReturned
    /\ "essential_apps" \in DOMAIN options0
    /\ output_mode = "Quiet"
    /\ Len(FlaggedCatalogNames(distro_data["essential_apps"].apps,
                               options0["essential_apps"])) >= 2
    /\ "emacs" \in DOMAIN options0["essential_apps"]
    /\ options0["essential_apps"]["emacs"] = TRUE
    /\ Len(Split(lastOut.out)) >= 5

(***************************************************************************)
(* C10.  Options Enumerator never raises on an incomplete catalog: for an  *)
(* empty catalog it returns an empty structure, and for a non-empty        *)
(* catalog in which any category (system_config, essential_apps or one of  *)
(* the six standard app categories) is missing it returns a structure with *)
(* an empty default for the missing category.                              *)
(***************************************************************************)
C10_NeverRaises ==
    lastOp = "generate_options"
    => /\ ~ lastOut.raised
       /\ DOMAIN distro_data = {} => DOMAIN lastOut.out = {}
       /\ DOMAIN distro_data # {}
          => /\ "system_config" \notin DOMAIN distro_data
                    => lastOut.out["system_config"] = <<>>
             /\ "essential_apps" \notin DOMAIN distro_data
                    => lastOut.out["essential_apps"] = <<>>
             /\ \A i \in DOMAIN additional_categories :
                    additional_categories[i] \notin DOMAIN distro_data
                    => lastOut.out[additional_categories[i]] = [name |-> "", apps |-> <<>>]

====
